---- MODULE Spec2Model ----
(***************************************************************************)
(* The suggestion lifecycle engine of AutoCRM: the useAISuggestions hook.  *)
(*                                                                         *)
(* The model holds the remote ai_suggestions table and the remote          *)
(* ai_feedback_events table, the hook's local state (suggestions, error,   *)
(* isLoading, channelRef), the change feed between the two, the fetches    *)
(* in flight and the accept/reject calls in flight, each with its position *)
(* in storeFeedback.  Every await of the source is a point where the other *)
(* handlers may run.                                                       *)
(***************************************************************************)
EXTENDS Integers, Sequences, FiniteSets, TLC

\* ------------------------------------------------------------------ bounds
NumIds     == 2   \* suggestion ids of the ticket, named in order of creation
MaxVer     == 2   \* content versions a suggestion goes through (remote edits)
MaxFeed    == 1   \* change events in flight
MaxRemote  == 3   \* changes of the table made by other writers
MaxCalls   == 1   \* accept/reject calls made
MaxOverlap == 1   \* accept/reject calls in flight at once
MaxFetches == 1   \* fetchSuggestions calls in flight at once

Ids     == 1..NumIds
CallIds == 1..MaxOverlap
FetchIds == 1..MaxFetches

VARIABLES
  remote,      \* ai_suggestions rows of this ticket: id -> [state, status, ver]
  events,      \* ai_feedback_events rows (the audit log)
  suggestions, \* useState<SuggestionState[]>: the local store
  error,       \* useState<Error | null>
  isLoading,   \* useState(true)
  phase,       \* the hook's lifetime: "new", "mounted", "unmounted"
  channelRef,  \* useRef: 0 is null, n > 0 the channel of the n-th effect run
  subs,        \* the channels subscribed at the realtime server
  feed,        \* change events sent to the subscribed handler, not yet handled
  fetches,     \* fetchSuggestions calls: slot -> [pc, ok, data]
  calls,       \* accept/reject calls in flight: slot -> position in storeFeedback
  nCalls,      \* accept/reject calls made so far
  nRemote,     \* changes of the table made by other writers so far
  userId,      \* useUser(): is user?.id available
  last,        \* history: the last store operation and the store before it
  scenario,    \* history: how far the end-to-end scenario has come, 0 to 3
  edit         \* a call of calculateEditDistance: [pc, str1, str2, result]

vars == <<remote, events, suggestions, error, isLoading, phase, channelRef,
          subs, feed, fetches, calls, nCalls, nRemote, userId, last,
          scenario, edit>>

Statuses == {"pending", "accepted", "rejected"}
Terminal == {"accepted", "rejected"}

\* ------------------------------------------------------------ pure helpers

\* { suggestion, status: 'success' }: the wrapper the store holds.  The
\* suggestion's fields are flattened: id, status, ver (its content);
\* created_at is the id, ids being named in order of creation.
WrapSuggestion(s) ==
  [id |-> s.id, status |-> s.status, ver |-> s.ver, ui |-> "success"]

\* currentSuggestions.some(s => s.suggestion.id === id)
HasId(cur, id) == \E i \in DOMAIN cur : cur[i].id = id

\* Mutant of FilterOut: the filter lets nothing through.
FilterOutAll(cur, id) == <<>>

\* currentSuggestions.filter(s => s.suggestion.id !== id)
FilterOut(cur, id) == SelectSeq(cur, LAMBDA s : s.id # id)

\* suggestions.find(s => s.suggestion.id === id): the first match, or NoEntry
NoEntry == [id |-> 0, status |-> "none", ver |-> 0, ui |-> "none"]
FindEntry(cur, id) ==
  IF HasId(cur, id)
    THEN cur[CHOOSE i \in DOMAIN cur :
               cur[i].id = id /\ \A j \in 1..(i-1) : cur[j].id # id]
    ELSE NoEntry

\* The row of the table as the server sends it.
Row(id) == [id |-> id, status |-> remote[id].status, ver |-> remote[id].ver]

\* select('*').eq('ticket_id', ticketId).order('created_at', ascending),
\* then data.map(suggestion => ({ suggestion, status: 'success' }))
RECURSIVE RowsFrom(_)
RowsFrom(id) ==
  IF id > NumIds THEN <<>>
  ELSE (IF remote[id].state = "live" THEN <<WrapSuggestion(Row(id))>> ELSE <<>>)
       \o RowsFrom(id + 1)
FetchRows == RowsFrom(1)

\* ------------------------------------------------- the change-feed handler

\* Mutant of OnInsert: the check for an entry with the same id is missing.
OnInsertNoCheck(cur, new) == Append(cur, WrapSuggestion(new))

\* payload.eventType === 'INSERT'
OnInsert(cur, new) ==
  IF HasId(cur, new.id) THEN cur ELSE Append(cur, WrapSuggestion(new))

\* Mutant of OnDelete: the first entry is removed, whatever its id.
OnDeleteFirst(cur, id) == IF cur = <<>> THEN cur ELSE Tail(cur)

\* payload.eventType === 'DELETE'
OnDelete(cur, id) == FilterOut(cur, id)

\* Mutant of OnUpdate: only a rejected suggestion is removed.
OnUpdateRejectedOnly(cur, upd) ==
  IF upd.status = "rejected"
    THEN FilterOut(cur, upd.id)
    ELSE [i \in DOMAIN cur |->
            IF cur[i].id = upd.id
              THEN [cur[i] EXCEPT !.status = upd.status, !.ver = upd.ver]
              ELSE cur[i]]

\* Mutant of OnUpdate: the updated suggestion is moved to the end.
OnUpdateMoves(cur, upd) ==
  IF upd.status = "accepted" \/ upd.status = "rejected"
    THEN FilterOut(cur, upd.id)
    ELSE IF HasId(cur, upd.id)
           THEN Append(FilterOut(cur, upd.id), WrapSuggestion(upd))
           ELSE cur

\* payload.eventType === 'UPDATE'
OnUpdate(cur, upd) ==
  IF upd.status = "accepted" \/ upd.status = "rejected"
    THEN FilterOut(cur, upd.id)
    ELSE [i \in DOMAIN cur |->
            IF cur[i].id = upd.id
              THEN [cur[i] EXCEPT !.status = upd.status, !.ver = upd.ver]
              ELSE cur[i]]

\* The handler of the postgres_changes subscription.
ApplyEvent(cur, e) ==
  CASE e.type = "INSERT" -> OnInsert(cur, e)
    [] e.type = "DELETE" -> OnDelete(cur, e.id)
    [] e.type = "UPDATE" -> OnUpdate(cur, e)
    [] OTHER -> cur

\* ------------------------------------------------------------------- Init

\* No row with the id: not yet created, or (state "gone") deleted.
NoRow == [state |-> "none", status |-> "pending", ver |-> 0,
          created_at |-> 0, updated_at |-> 0]

\* The time, as far as it is told apart: instants are numbered by the changes
\* other writers have made to the table so far.
Clock == nRemote

\* const now = new Date().toISOString(), taken when the ticket is loaded
Now(call) == call.now

\* The history variable: the store operation just done (kind), the id it was
\* about, the event's status and content or the step that failed (st, ver),
\* the call as it was (call), and the store and the table before the
\* operation (before, table).
NoCall == [n |-> 0, op |-> "none", id |-> 0, reason |-> "none", uid |-> FALSE,
           failed |-> NoEntry, pc |-> "idle", spanA |-> "none",
           spanB |-> "none", wrote |-> "none", now |-> 0, flushed |-> FALSE]
NoOp == [kind |-> "none", id |-> 0, st |-> "none", ver |-> 0, call |-> NoCall,
         before |-> <<>>, table |-> <<>>, data |-> <<>>]
Op(kind, id, st, ver, call) ==
  [kind |-> kind, id |-> id, st |-> st, ver |-> ver, call |-> call,
   before |-> suggestions, table |-> remote, data |-> <<>>]

\* calculateEditDistance is not being called.
IdleEdit == [pc |-> "idle", str1 |-> <<>>, str2 |-> <<>>, result |-> 0]

\* The store holds s1 and s2, both pending, in this order.
S1S2Pending(cur) ==
  /\ Len(cur) = 2
  /\ cur[1].id = 1 /\ cur[1].status = "pending"
  /\ cur[2].id = 2 /\ cur[2].status = "pending"

\* The end-to-end scenario as a history of the steps taken: 1 when a fetch
\* has put [s1, s2], both pending, into the store, 2 when the update event
\* (s1, accepted) is handled next, 3 when an accept of s2 succeeds after
\* that.  Any other change of the store in between ends the scenario.
Track ==
  scenario' =
    CASE last'.kind = "fetch" /\ S1S2Pending(last'.data) -> 1
      [] /\ scenario = 1 /\ last'.kind = "UPDATE"
         /\ last'.id = 1 /\ last'.st = "accepted" -> 2
      [] scenario = 2 /\ last'.kind = "acceptDone" /\ last'.id = 2 -> 3
      [] OTHER -> IF suggestions' = suggestions THEN scenario ELSE 0

IdleFetch == [pc |-> "idle", ok |-> TRUE, data |-> <<>>]

IdleCall == NoCall

Init ==
  /\ remote = [id \in Ids |-> NoRow]
  /\ events = {}
  /\ suggestions = <<>>
  /\ error = "null"
  /\ isLoading = TRUE
  /\ phase = "new"
  /\ channelRef = 0
  /\ subs = {}
  /\ feed = <<>>
  /\ fetches = [f \in FetchIds |-> IdleFetch]
  /\ calls = [c \in CallIds |-> IdleCall]
  /\ nCalls = 0
  /\ nRemote = 0
  /\ userId = FALSE
  /\ last = NoOp
  /\ scenario = 0
  /\ edit = IdleEdit

\* ------------------------------------------------------ the remote side

\* The realtime server sends a change of the table to every subscribed
\* channel; with no channel subscribed the change is not seen.
FeedRoom == subs = {} \/ Len(feed) + Cardinality(subs) <= MaxFeed
RECURSIVE ToChannels(_, _)
ToChannels(e, chans) ==
  IF chans = {} THEN <<>>
  ELSE LET ch == CHOOSE x \in chans : \A y \in chans : x <= y
       IN  <<[e EXCEPT !.ch = ch]>> \o ToChannels(e, chans \ {ch})
Emit(e) == feed \o ToChannels(e, subs)

ChangeEvent(type, id) ==
  [type |-> type, id |-> id, status |-> remote'[id].status,
   ver |-> remote'[id].ver, ch |-> 0]

\* A new suggestion is generated for the ticket (the generate-suggestion
\* service that triggerSuggestion posts to).
RemoteCreate(id) ==
  /\ remote[id].state = "none"
  /\ \A j \in 1..(id-1) : remote[j].state # "none"
  /\ FeedRoom
  /\ nRemote < MaxRemote
  /\ nRemote' = nRemote + 1
  /\ remote' = [remote EXCEPT ![id] = [state |-> "live", status |-> "pending", ver |-> 1,
                                      created_at |-> Clock + 1,
                                      updated_at |-> Clock + 1]]
  /\ feed' = Emit(ChangeEvent("INSERT", id))
  /\ last' = NoOp
  /\ UNCHANGED <<events, suggestions, error, isLoading, phase, channelRef,
                 subs, fetches, calls, nCalls, userId>>
  /\ Track
  /\ UNCHANGED edit

\* A row of the table is changed by another writer, its status kept.
RemoteEdit(id) ==
  /\ remote[id].state = "live"
  /\ remote[id].ver < MaxVer
  /\ FeedRoom
  /\ nRemote < MaxRemote
  /\ nRemote' = nRemote + 1
  /\ remote' = [remote EXCEPT ![id].ver = @ + 1, ![id].updated_at = Clock + 1]
  /\ feed' = Emit(ChangeEvent("UPDATE", id))
  /\ last' = NoOp
  /\ UNCHANGED <<events, suggestions, error, isLoading, phase, channelRef,
                 subs, fetches, calls, nCalls, userId>>
  /\ Track
  /\ UNCHANGED edit

\* Another session of the application accepts or rejects a pending
\* suggestion: the status update of its storeFeedback.
RemoteResolve(id, status) ==
  /\ remote[id].state = "live"
  /\ remote[id].status = "pending"
  /\ FeedRoom
  /\ nRemote < MaxRemote
  /\ nRemote' = nRemote + 1
  /\ remote' = [remote EXCEPT ![id].status = status,
                              ![id].updated_at = Clock + 1]
  /\ feed' = Emit(ChangeEvent("UPDATE", id))
  /\ last' = NoOp
  /\ UNCHANGED <<events, suggestions, error, isLoading, phase, channelRef,
                 subs, fetches, calls, nCalls, userId>>
  /\ Track
  /\ UNCHANGED edit

\* A row of the table is deleted.
RemoteDelete(id) ==
  /\ remote[id].state = "live"
  /\ FeedRoom
  /\ nRemote < MaxRemote
  /\ nRemote' = nRemote + 1
  /\ remote' = [remote EXCEPT ![id] = [NoRow EXCEPT !.state = "gone"]]
  /\ feed' = Emit([type |-> "DELETE", id |-> id, status |-> "none", ver |-> 0, ch |-> 0])
  /\ last' = NoOp
  /\ UNCHANGED <<events, suggestions, error, isLoading, phase, channelRef,
                 subs, fetches, calls, nCalls, userId>>
  /\ Track
  /\ UNCHANGED edit

\* useUser() delivers the signed-in user.
UserLoaded ==
  /\ ~userId
  /\ userId' = TRUE
  /\ last' = NoOp
  /\ UNCHANGED <<remote, events, suggestions, error, isLoading, phase,
                 channelRef, subs, feed, fetches, calls, nCalls, nRemote>>
  /\ Track
  /\ UNCHANGED edit

\* ------------------------------------------------------- fetchSuggestions

FreeFetch(f) ==
  /\ fetches[f].pc = "idle"
  /\ \A g \in 1..(f-1) : fetches[g].pc # "idle"

\* fetchSuggestions up to its await: setIsLoading(true), the select is sent.
BeginFetch(f) == [fetches EXCEPT ![f].pc = "sent"]

\* The server answers the select with the rows of the ticket as they are
\* now, or with an error.
FetchAnswer(f, ok) ==
  /\ fetches[f].pc = "sent"
  /\ fetches' = [fetches EXCEPT ![f] = [pc |-> "inflight", ok |-> ok,
                                        data |-> IF ok THEN FetchRows ELSE <<>>]]
  /\ last' = NoOp
  /\ UNCHANGED <<remote, events, suggestions, error, isLoading, phase,
                 channelRef, subs, feed, calls, nCalls, nRemote, userId>>
  /\ Track
  /\ UNCHANGED edit

\* refetch: fetchSuggestions called by the consumer of the hook.
Refetch(f) ==
  /\ phase = "mounted"
  /\ FreeFetch(f)
  /\ fetches' = BeginFetch(f)
  /\ isLoading' = TRUE
  /\ last' = NoOp
  /\ UNCHANGED <<remote, events, suggestions, error, phase, channelRef,
                 subs, feed, calls, nCalls, nRemote, userId>>
  /\ Track
  /\ UNCHANGED edit

\* Mutant of FetchResult: the data of the answer is stored, error or not.
FetchResultData(cur, r) == r.data

\* The store after the answer r: setSuggestions(data.map(...)), or the catch.
FetchResult(cur, r) == IF r.ok THEN r.data ELSE cur

\* The answer arrives: if (error) throw error; setSuggestions(...); catch:
\* setError(...); finally: setIsLoading(false).
FetchResolve(f) ==
  /\ fetches[f].pc = "inflight"
  /\ suggestions' = FetchResult(suggestions, fetches[f])
  /\ error' = IF fetches[f].ok THEN error ELSE "err"
  /\ isLoading' = FALSE
  /\ fetches' = [fetches EXCEPT ![f] = IdleFetch]
  /\ last' = [Op(IF fetches[f].ok THEN "fetch" ELSE "fetchError", 0, "none",
                  0, NoCall) EXCEPT !.data = fetches[f].data]
  /\ UNCHANGED <<remote, events, phase, channelRef, subs, feed, calls, nCalls,
                 nRemote, userId>>
  /\ Track
  /\ UNCHANGED edit

\* ------------------------------------------------ the subscription effect

\* channelRef.current.unsubscribe(): the channel's events still on their way
\* are no longer handled.
Unsubscribed(q, ch) == SelectSeq(q, LAMBDA e : e.ch # ch)

\* supabase.channel(...): a channel that is not one of the subscribed ones.
NewChannel(chans) == CHOOSE n \in 1..(Cardinality(chans) + 1) : n \notin chans

\* The effect body: fetchSuggestions(); unsubscribe the previous channel if
\* channelRef holds one; subscribe a new channel and keep it in channelRef.
\* `ref` is channelRef.current when the body runs, `chans` the subscribed
\* channels and `q` the feed then.
EffectBody(f, ref, chans, q) ==
  /\ FreeFetch(f)
  /\ fetches' = BeginFetch(f)
  /\ isLoading' = TRUE
  /\ channelRef' = NewChannel(chans \ {ref})
  /\ subs' = (chans \ {ref}) \cup {NewChannel(chans \ {ref})}
  /\ feed' = Unsubscribed(q, ref)

\* Mutant of CleanupSubs: the cleanup forgets the ref without unsubscribing.
CleanupSubsNothing == subs

\* The effect's cleanup: if (channelRef.current) { unsubscribe(); = null }
CleanupRef == 0
CleanupSubs == subs \ {channelRef}
CleanupFeed == Unsubscribed(feed, channelRef)

\* First render committed: the effect runs.
Mount(f) ==
  /\ phase = "new"
  /\ phase' = "mounted"
  /\ EffectBody(f, channelRef, subs, feed)
  /\ last' = NoOp
  /\ UNCHANGED <<remote, events, suggestions, error, calls, nCalls, nRemote, userId>>
  /\ Track
  /\ UNCHANGED edit

\* useUserRole sets isAdmin/isAgent: fetchSuggestions is a new callback, so
\* the effect's cleanup runs and then the effect again.
RolesLoaded(f) ==
  /\ phase = "mounted"
  /\ EffectBody(f, CleanupRef, CleanupSubs, CleanupFeed)
  /\ last' = Op("resubscribe", 0, "none", 0, NoCall)
  /\ UNCHANGED <<remote, events, suggestions, error, phase, calls, nCalls, nRemote, userId>>
  /\ Track
  /\ UNCHANGED edit

\* The consumer goes away: the effect's cleanup runs.
Unmount ==
  /\ phase = "mounted"
  /\ phase' = "unmounted"
  /\ channelRef' = CleanupRef
  /\ subs' = CleanupSubs
  /\ feed' = CleanupFeed
  /\ last' = NoOp
  /\ UNCHANGED <<remote, events, suggestions, error, isLoading, fetches,
                 calls, nCalls, nRemote, userId>>
  /\ Track
  /\ UNCHANGED edit

\* The subscribed handler receives the next change event.
Deliver ==
  /\ feed # <<>>
  /\ suggestions' = ApplyEvent(suggestions, Head(feed))
  /\ feed' = Tail(feed)
  /\ last' = Op(Head(feed).type, Head(feed).id, Head(feed).status,
                Head(feed).ver, NoCall)
  /\ UNCHANGED <<remote, events, error, isLoading, phase, channelRef, subs,
                 fetches, calls, nCalls, nRemote, userId>>
  /\ Track
  /\ UNCHANGED edit

\* ------------------------------------------------ accept, reject, feedback

FreeCall(c) ==
  /\ nCalls < MaxCalls
  /\ calls[c].pc = "idle"
  /\ \A d \in 1..(c-1) : calls[d].pc # "idle"

\* storeFeedback up to its first await: if (!user?.id) it waits 500 ms,
\* otherwise it sends the select of the suggestion.
FirstStep(uid) == IF uid THEN "loadSuggestion" ELSE "identityWait"

\* AIFeedback.feedback_type
FeedbackTypes == {"approval", "rejection", "revision"}

\* feedback.feedback_type of the call
FeedbackType(op) == IF op = "accept" THEN "approval" ELSE "rejection"

\* Mutant of NewStatus: a rejection puts the suggestion back to pending.
NewStatusPending(type) == IF type = "approval" THEN "accepted" ELSE "pending"

\* feedback.feedback_type === 'approval' ? 'accepted' : 'rejected'
NewStatus(type) == IF type = "approval" THEN "accepted" ELSE "rejected"

\* acceptSuggestion(id) up to the first await of storeFeedback.
AcceptStart(c, id) ==
  /\ phase = "mounted"
  /\ FreeCall(c)
  /\ nCalls' = nCalls + 1
  /\ calls' = [calls EXCEPT ![c] =
       [IdleCall EXCEPT !.n = nCalls + 1, !.op = "accept", !.id = id,
                        !.uid = userId,
                        !.pc = FirstStep(userId)]]
  /\ last' = Op("acceptStart", id, "none", 0, calls'[c])
  /\ UNCHANGED <<remote, events, suggestions, error, isLoading, phase,
                 channelRef, subs, feed, fetches, nRemote, userId>>
  /\ Track
  /\ UNCHANGED edit

\* Mutant of Optimistic: rejectSuggestion waits for storeFeedback.
OptimisticNothing(cur, id) == cur

\* rejectSuggestion's optimistic update of the local state
Optimistic(cur, id) == FilterOut(cur, id)

\* rejectSuggestion(id, reason) up to the first await of storeFeedback: the
\* optimistic removal.  `failed` is what suggestions.find(...) of the catch
\* block will give: `suggestions` there is the list the callback closed over,
\* the list held when the call was made.
RejectStart(c, id, reason) ==
  /\ phase = "mounted"
  /\ FreeCall(c)
  /\ nCalls' = nCalls + 1
  /\ suggestions' = Optimistic(suggestions, id)
  /\ calls' = [calls EXCEPT ![c] =
       [IdleCall EXCEPT !.n = nCalls + 1, !.op = "reject", !.id = id,
                        !.reason = reason,
                        !.uid = userId, !.failed = FindEntry(suggestions, id),
                        !.pc = FirstStep(userId)]]
  /\ last' = Op("rejectStart", id, "none", 0, calls'[c])
  /\ UNCHANGED <<remote, events, error, isLoading, phase, channelRef, subs,
                 feed, fetches, nRemote, userId>>
  /\ Track
  /\ UNCHANGED edit

\* Mutant of Rollback: the catch block throws without reverting.
RollbackNothing(cur, failed) == cur

\* catch of rejectSuggestion: if (failedSuggestion) setSuggestions(current =>
\* [...current, failedSuggestion])
Rollback(cur, failed) == IF failed # NoEntry THEN Append(cur, failed) ELSE cur

\* Mutant of ErrorOf: one message for every failure.
ErrorOfGeneric(at) == "errSuggestion"

\* The error storeFeedback throws at step `at`: 'No user ID available',
\* 'Suggestion not found', 'Ticket not found', the error of the update, the
\* error of the insert.
ErrorOf(at) ==
  CASE at = "identity" -> "errIdentity"
    [] at = "suggestion" -> "errSuggestion"
    [] at = "ticket" -> "errTicket"
    [] at = "A" -> "errA"
    [] at = "B" -> "errB"

\* storeFeedback throws at step `at`: acceptSuggestion lets the error through,
\* rejectSuggestion's catch reverts the local state and throws it again.  The
\* call is over; `call` is the call as it ends.
Throw(c, at, call) ==
  /\ suggestions' = IF call.op = "reject"
                      THEN Rollback(suggestions, call.failed)
                      ELSE suggestions
  /\ calls' = [calls EXCEPT ![c] = IdleCall]
  /\ last' = Op(IF call.op = "reject" THEN "rejectError" ELSE "acceptError",
                call.id, at, 0, call)

\* The 500 ms are over: `user` is the value the callback closed over, so
\* user?.id is missing as before and 'No user ID available' is thrown.
IdentityRetry(c) ==
  /\ calls[c].pc = "identityWait"
  /\ IF calls[c].uid
       THEN /\ calls' = [calls EXCEPT ![c].pc = "loadSuggestion"]
            /\ last' = Op("load", calls[c].id, "none", 0, calls'[c])
            /\ UNCHANGED suggestions
       ELSE Throw(c, "identity", [calls[c] EXCEPT !.pc = ErrorOf("identity")])
  /\ UNCHANGED <<remote, events, error, isLoading, phase, channelRef, subs,
                 feed, fetches, nCalls, nRemote, userId>>
  /\ Track
  /\ UNCHANGED edit

\* select('*').eq('id', suggestion_id).single(): no row, or no answer, gives
\* no data and 'Suggestion not found'.
LoadSuggestion(c, answered) ==
  /\ calls[c].pc = "loadSuggestion"
  /\ IF answered /\ remote[calls[c].id].state = "live"
       THEN /\ calls' = [calls EXCEPT ![c].pc = "loadTicket"]
            /\ last' = Op("load", calls[c].id, "none", 0, calls'[c])
            /\ UNCHANGED suggestions
       ELSE Throw(c, "suggestion", [calls[c] EXCEPT !.pc = ErrorOf("suggestion")])
  /\ UNCHANGED <<remote, events, error, isLoading, phase, channelRef, subs,
                 feed, fetches, nCalls, nRemote, userId>>
  /\ Track
  /\ UNCHANGED edit

\* The select of the ticket with its messages: 'Ticket not found' without data.
LoadTicket(c, found) ==
  /\ calls[c].pc = "loadTicket"
  /\ IF found
       THEN /\ calls' = [calls EXCEPT ![c].pc = "stepA", ![c].now = Clock]
            /\ last' = Op("load", calls[c].id, "none", 0, calls'[c])
            /\ UNCHANGED suggestions
       ELSE Throw(c, "ticket", [calls[c] EXCEPT !.pc = ErrorOf("ticket")])
  /\ UNCHANGED <<remote, events, error, isLoading, phase, channelRef, subs,
                 feed, fetches, nCalls, nRemote, userId>>
  /\ Track
  /\ UNCHANGED edit

\* Mutant of NextStep: the insert of the event is left out.
NextStepSkipsInsert(pc) ==
  CASE pc = "stepA" -> "flush"
    [] pc = "stepB" -> "flush"
    [] pc = "flush" -> "ok"

\* What storeFeedback does when the awaited call of a step has succeeded:
\* after the status update the insert, after the insert (and the update of
\* the trace) langfuse.flushAsync(), after the flush the return.
NextStep(pc) ==
  CASE pc = "stepA" -> "stepB"
    [] pc = "stepB" -> "flush"
    [] pc = "flush" -> "ok"

\* Mutant of UpdateStatus: updated_at is not part of the update.
UpdateStatusNoStamp(tbl, id, status, now) ==
  IF tbl[id].state = "live" THEN [tbl EXCEPT ![id].status = status] ELSE tbl

\* The ai_suggestions table after update({status, updated_at}).eq('id', id):
\* the row, if there is one, has the new status and the time of the call.
UpdateStatus(tbl, id, status, now) ==
  IF tbl[id].state = "live"
    THEN [tbl EXCEPT ![id].status = status, ![id].updated_at = now]
    ELSE tbl

\* Mutant of SpanMeta: the span is closed as a success whatever happened.
SpanMetaSuccess(ok) == "success"

\* suggestionSpan.update / feedbackSpan.update({ metadata: ... }) after a step
SpanMeta(ok) == IF ok THEN "success" ELSE "error"

\* Step A: the status update.  With an error the span is annotated and the
\* error thrown; without one the change of the row is published.
StepA(c, ok) ==
  /\ calls[c].pc = "stepA"
  /\ IF ok
       THEN /\ remote' = UpdateStatus(remote, calls[c].id,
                                      NewStatus(FeedbackType(calls[c].op)),
                                      Now(calls[c]))
            /\ IF remote[calls[c].id].state = "live"
                 THEN FeedRoom /\ feed' = Emit(ChangeEvent("UPDATE", calls[c].id))
                 ELSE UNCHANGED feed
            /\ calls' = [calls EXCEPT ![c].pc = NextStep("stepA"),
                           ![c].spanA = SpanMeta(ok),
                           ![c].wrote = NewStatus(FeedbackType(calls[c].op))]
            /\ last' = Op("stepA", calls[c].id, "none", 0, calls'[c])
            /\ UNCHANGED suggestions
       ELSE /\ Throw(c, "A", [calls[c] EXCEPT !.pc = ErrorOf("A"), !.spanA = SpanMeta(ok)])
            /\ UNCHANGED <<remote, feed>>
  /\ UNCHANGED <<events, error, isLoading, phase, channelRef, subs, fetches,
                 nCalls, nRemote, userId>>
  /\ Track
  /\ UNCHANGED edit

\* Mutant of FeedbackEvent: updated_at is not the instant of created_at.
FeedbackEventTouched(call) ==
  [n |-> call.n, suggestion_id |-> call.id,
   feedback_type |-> FeedbackType(call.op),
   feedback_reason |-> IF call.reason = "none" THEN "null" ELSE call.reason,
   time_to_feedback |-> 0,
   created_at |-> Now(call), updated_at |-> Now(call) + 1]

\* The row inserted into ai_feedback_events by the call.
FeedbackEvent(call) ==
  [n |-> call.n, suggestion_id |-> call.id,
   feedback_type |-> FeedbackType(call.op),
   feedback_reason |-> IF call.reason = "none" THEN "null" ELSE call.reason,
   time_to_feedback |-> 0,
   created_at |-> Now(call), updated_at |-> Now(call)]

\* Step B: insert into ai_feedback_events; then feedbackTrace.update(...).
StepB(c, ok) ==
  /\ calls[c].pc = "stepB"
  /\ IF ok
       THEN /\ events' = events \cup {FeedbackEvent(calls[c])}
            /\ calls' = [calls EXCEPT ![c].pc = NextStep("stepB"),
                                      ![c].spanB = SpanMeta(ok)]
            /\ last' = Op("stepB", calls[c].id, "none", 0, calls'[c])
            /\ UNCHANGED suggestions
       ELSE /\ Throw(c, "B", [calls[c] EXCEPT !.pc = ErrorOf("B"), !.spanB = SpanMeta(ok)])
            /\ UNCHANGED events
  /\ UNCHANGED <<remote, error, isLoading, phase, channelRef, subs, feed,
                 fetches, nCalls, nRemote, userId>>
  /\ Track
  /\ UNCHANGED edit

\* Mutant of AcceptRemoval: the accepted suggestion stays in the local state.
AcceptRemovalNothing(cur, id) == cur

\* acceptSuggestion after storeFeedback: setSuggestions(current =>
\* current.filter(s => s.id !== suggestionId))
AcceptRemoval(cur, id) == FilterOut(cur, id)

\* langfuse.flushAsync() is over and storeFeedback returns: acceptSuggestion
\* removes the suggestion from the local state, rejectSuggestion is done.
Flush(c) ==
  /\ calls[c].pc = "flush"
  /\ calls' = [calls EXCEPT ![c] = IdleCall]
  /\ suggestions' = IF calls[c].op = "accept"
                      THEN AcceptRemoval(suggestions, calls[c].id)
                      ELSE suggestions
  /\ last' = Op(IF calls[c].op = "accept" THEN "acceptDone" ELSE "rejectDone",
                calls[c].id, "none", 0,
                [calls[c] EXCEPT !.pc = NextStep("flush"), !.flushed = TRUE])
  /\ UNCHANGED <<remote, events, error, isLoading, phase, channelRef, subs,
                 feed, fetches, nCalls, nRemote, userId>>
  /\ Track
  /\ UNCHANGED edit

\* --------------------------------------------------- calculateEditDistance

\* Strings are sequences of UTF-16 code units, as str[i] reads them.
MaxLen == 3
Alphabet == {"a", "b"}
Strings == UNION {[1..k -> Alphabet] : k \in 0..MaxLen}
Kitten == <<"k", "i", "t", "t", "e", "n">>
Sitting == <<"s", "i", "t", "t", "i", "n", "g">>

\* The arguments calculateEditDistance is called with.
EditInputs ==
  (Strings \X Strings)
    \cup {<<Kitten, Sitting>>, <<Sitting, Kitten>>, <<Kitten, Kitten>>}

\* Math.min of three numbers
Min3(x, y, z) ==
  IF x <= y /\ x <= z THEN x ELSE IF y <= z THEN y ELSE z

\* Mutant of Cell: a differing character is never substituted.
CellNoSubstitution(dp, str1, str2, i, j) ==
  IF i = 0 THEN j
  ELSE IF j = 0 THEN i
  ELSE IF str1[i] = str2[j] THEN dp[i - 1][j - 1]
  ELSE 1 + Min3(dp[i - 1][j], dp[i][j - 1], dp[i][j - 1])

\* The body of the inner loop: the value stored into dp[i][j].  str1[i - 1]
\* of the code is str1[i] here, sequences being indexed from 1.
Cell(dp, str1, str2, i, j) ==
  IF i = 0 THEN j
  ELSE IF j = 0 THEN i
  ELSE IF str1[i] = str2[j] THEN dp[i - 1][j - 1]
  ELSE 1 + Min3(dp[i - 1][j], dp[i][j - 1], dp[i - 1][j - 1])

\* for (i = 0; i <= m; i++) for (j = 0; j <= n; j++): the table after the
\* loops, entered at (i, j).
RECURSIVE FillTable(_, _, _, _, _)
FillTable(dp, str1, str2, i, j) ==
  IF i > Len(str1) THEN dp
  ELSE IF j > Len(str2) THEN FillTable(dp, str1, str2, i + 1, 0)
  ELSE FillTable([dp EXCEPT ![i][j] = Cell(dp, str1, str2, i, j)],
                 str1, str2, i, j + 1)

\* dp is Array(m + 1) of Array(n + 1).fill(0); the result is dp[m][n].
calculateEditDistance(str1, str2) ==
  LET m == Len(str1)
      n == Len(str2)
      dp == [i \in 0..m |-> [j \in 0..n |-> 0]]
  IN  FillTable(dp, str1, str2, 0, 0)[m][n]

\* calculateEditDistance(str1, str2) is called and returns.
Calculate ==
  /\ edit.pc = "called"
  /\ edit' = [edit EXCEPT !.pc = "returned",
                          !.result = calculateEditDistance(edit.str1, edit.str2)]
  /\ UNCHANGED <<remote, events, suggestions, error, isLoading, phase,
                 channelRef, subs, feed, fetches, calls, nCalls, nRemote,
                 userId, last, scenario>>

\* feedback.agent_response: not given (undefined), or a string.
NoResponse == [given |-> FALSE, text |-> <<>>]
Responses == {NoResponse} \cup {[given |-> TRUE, text |-> t] : t \in Strings}

\* Mutant of Truthy: the empty string counts as a text.
TruthyGiven(agent_response) == agent_response.given

\* feedback.agent_response ? ... : ...  -- undefined and '' are falsy.
Truthy(agent_response) ==
  agent_response.given /\ agent_response.text # <<>>

\* edit_distance of suggestion_update in the output of the trace: a number,
\* or null.
EditDistanceOf(suggested_response, agent_response) ==
  IF Truthy(agent_response)
    THEN [null |-> FALSE,
          value |-> calculateEditDistance(suggested_response, agent_response.text)]
    ELSE [null |-> TRUE, value |-> 0]

\* feedbackTrace.update({ output: { suggestion_update: { edit_distance } } })
\* for a suggestion and a feedback.
TraceUpdate ==
  /\ edit.pc = "feedback"
  /\ edit' = [edit EXCEPT !.pc = "traced",
                          !.edit_distance =
                             EditDistanceOf(edit.suggested_response,
                                            edit.agent_response)]
  /\ UNCHANGED <<remote, events, suggestions, error, isLoading, phase,
                 channelRef, subs, feed, fetches, calls, nCalls, nRemote,
                 userId, last, scenario>>

\* ------------------------------------------------------------------- Next

\* A FeedbackReason, or none given.
Reasons == {"none", "irrelevant"}

Next ==
  \/ \E id \in Ids : RemoteCreate(id)
  \/ \E id \in Ids : RemoteEdit(id)
  \/ \E id \in Ids, status \in Terminal : RemoteResolve(id, status)
  \/ \E id \in Ids : RemoteDelete(id)
  \/ UserLoaded
  \/ \E f \in FetchIds : Mount(f)
  \/ \E f \in FetchIds : RolesLoaded(f)
  \/ Unmount
  \/ \E f \in FetchIds : Refetch(f)
  \/ \E f \in FetchIds, ok \in BOOLEAN : FetchAnswer(f, ok)
  \/ \E f \in FetchIds : FetchResolve(f)
  \/ Deliver
  \/ \E c \in CallIds, id \in Ids : AcceptStart(c, id)
  \/ \E c \in CallIds, id \in Ids, reason \in Reasons : RejectStart(c, id, reason)
  \/ \E c \in CallIds : IdentityRetry(c)
  \/ \E c \in CallIds, answered \in BOOLEAN : LoadSuggestion(c, answered)
  \/ \E c \in CallIds, found \in BOOLEAN : LoadTicket(c, found)
  \/ \E c \in CallIds, ok \in BOOLEAN : StepA(c, ok)
  \/ \E c \in CallIds, ok \in BOOLEAN : StepB(c, ok)
  \/ \E c \in CallIds : Flush(c)

Spec == Init /\ [][Next]_vars

\* calculateEditDistance on its own: a call with each pair of arguments.
InitEdit ==
  /\ remote = [id \in Ids |-> NoRow]
  /\ events = {}
  /\ suggestions = <<>>
  /\ error = "null"
  /\ isLoading = TRUE
  /\ phase = "new"
  /\ channelRef = 0
  /\ subs = {}
  /\ feed = <<>>
  /\ fetches = [f \in FetchIds |-> IdleFetch]
  /\ calls = [c \in CallIds |-> IdleCall]
  /\ nCalls = 0
  /\ nRemote = 0
  /\ userId = FALSE
  /\ last = NoOp
  /\ scenario = 0
  /\ edit \in {[pc |-> "called", str1 |-> p[1], str2 |-> p[2], result |-> 0] :
                 p \in EditInputs}

NextEdit == Calculate

SpecEdit == InitEdit /\ [][NextEdit]_vars

\* The edit distance of the trace output on its own: a suggested response
\* and a feedback with or without agent_response.
InitTrace ==
  /\ remote = [id \in Ids |-> NoRow]
  /\ events = {}
  /\ suggestions = <<>>
  /\ error = "null"
  /\ isLoading = TRUE
  /\ phase = "new"
  /\ channelRef = 0
  /\ subs = {}
  /\ feed = <<>>
  /\ fetches = [f \in FetchIds |-> IdleFetch]
  /\ calls = [c \in CallIds |-> IdleCall]
  /\ nCalls = 0
  /\ nRemote = 0
  /\ userId = FALSE
  /\ last = NoOp
  /\ scenario = 0
  /\ edit \in {[pc |-> "feedback", suggested_response |-> t, agent_response |-> r,
                 edit_distance |-> [null |-> TRUE, value |-> 0]] :
                 t \in Strings, r \in Responses}

NextTrace == TraceUpdate

SpecTrace == InitTrace /\ [][NextTrace]_vars

\* ------------------------------------------------------------ properties

\* Helpers of the properties below (not part of the program).
ErrorKinds == {"rejectError", "acceptError"}
Holds(cur, entry) == \E i \in DOMAIN cur : cur[i] = entry
RECURSIVE OthersOf(_, _)
OthersOf(cur, id) ==
  IF cur = <<>> THEN <<>>
  ELSE (IF Head(cur).id = id THEN <<>> ELSE <<Head(cur)>>) \o OthersOf(Tail(cur), id)

\* C1: when a reject that removed its suggestion from the local store fails,
\* at whatever step of storeFeedback and whatever was delivered or fetched
\* meanwhile, the store then holds that suggestion as it was when the call
\* was made, and the call ends with the error.
C1_RollbackRestores ==
  (last.kind = "rejectError" /\ last.call.failed.id = last.id)
    => /\ Holds(suggestions, last.call.failed)
       /\ last.call.pc \in {"errIdentity", "errSuggestion", "errTicket", "errA", "errB"}

\* C1 witness: a reject whose status update succeeded and whose event insert
\* failed, rolled back after the store had been refilled meanwhile.
C1_Witness ==
  /\ last.kind = "rejectError"
  /\ last.st = "B"
  /\ last.call.failed # NoEntry
  /\ last.before # <<>>
  /\ Holds(suggestions, last.call.failed)

\* C2: a failed status update (step A) leaves no FeedbackEvent of that
\* submission, its span carries the error and the call ends with the error;
\* and every FeedbackEvent is inserted by a submission whose status update
\* succeeded.
C2_StepAFailureWritesNoEvent ==
  /\ (last.kind \in ErrorKinds /\ last.st = "A")
       => /\ \A e \in events : e.n # last.call.n
          /\ last.call.spanA = "error"
          /\ last.call.pc = "errA"
  /\ last.kind = "stepB"
       => /\ last.call.spanA = "success"
          /\ last.call.wrote \in Terminal
          /\ \E e \in events : e.n = last.call.n

\* C2 witness: the status update of a submission has just failed for a
\* suggestion that is in the table.
C2_Witness ==
  /\ last.kind \in ErrorKinds
  /\ last.st = "A"
  /\ remote[last.id].state = "live"

\* C3: when the FeedbackEvent insert (step B) fails after the status update
\* succeeded, the call ends with the error, the table is left as it was and
\* the suggestion's status, if the row is still there, is a terminal one.
C3_StepBFailureKeepsStatus ==
  (last.kind \in ErrorKinds /\ last.st = "B")
    => /\ last.call.pc = "errB"
       /\ last.call.spanA = "success"
       /\ remote = last.table
       /\ \A e \in events : e.n # last.call.n
       /\ remote[last.id].state = "live" => remote[last.id].status \in Terminal

\* C3 witness: the insert has just failed for a suggestion that is there.
C3_Witness ==
  /\ last.kind \in ErrorKinds
  /\ last.st = "B"
  /\ remote[last.id].state = "live"
  /\ remote[last.id].status = last.call.wrote

\* C4 (as claimed): the status of a suggestion only ever changes from
\* pending to accepted or from pending to rejected.
C4_OnlyFromPending ==
  [][\A id \in Ids :
       (remote[id].state = "live" /\ remote'[id].state = "live"
          /\ remote'[id].status # remote[id].status)
         => (remote[id].status = "pending" /\ remote'[id].status \in Terminal)]_vars

\* C5 (as claimed): a rejection without a reason is refused before the store
\* is changed and before anything is sent; no such submission is ever under
\* way and no event without a reason is recorded for a rejection.
C5_ValidationFirst ==
  /\ (last.kind = "rejectStart" /\ last.call.reason = "none")
       => suggestions = last.before
  /\ \A c \in CallIds :
       (calls[c].op = "reject" /\ calls[c].reason = "none") => calls[c].pc = "idle"
  /\ \A e \in events : e.feedback_type # "approval" => e.feedback_reason # "null"

\* C6 (as claimed): an update event with a status that is not terminal, for
\* an id the store does not hold, inserts the record.
C6_UpdateUpserts ==
  (last.kind = "UPDATE" /\ last.st \notin Terminal /\ ~HasId(last.before, last.id))
    => HasId(suggestions, last.id)

\* C7: after an update event with status accepted or rejected the store does
\* not hold the id, whether it held it before or not, and the other entries
\* are what they were, in the same order.
C7_TerminalUpdateRemoves ==
  (last.kind = "UPDATE" /\ last.st \in Terminal)
    => /\ ~HasId(suggestions, last.id)
       /\ suggestions = OthersOf(last.before, last.id)

\* C7 witness: a terminal update removed an entry and kept another.
C7_Witness ==
  /\ last.kind = "UPDATE"
  /\ last.st = "accepted"
  /\ HasId(last.before, last.id)
  /\ suggestions # <<>>

\* C8: an insert event for an id the store holds leaves the store as it was;
\* for an id it does not hold, one entry with the record is appended.
C8_InsertIdempotent ==
  last.kind = "INSERT"
    => IF HasId(last.before, last.id)
         THEN suggestions = last.before
         ELSE /\ Len(suggestions) = Len(last.before) + 1
              /\ SubSeq(suggestions, 1, Len(last.before)) = last.before
              /\ suggestions[Len(suggestions)] =
                   [id |-> last.id, status |-> last.st, ver |-> last.ver,
                    ui |-> "success"]

\* C8 witness: an insert event arrived for an id the store already held.
C8_Witness ==
  /\ last.kind = "INSERT"
  /\ HasId(last.before, last.id)

\* C9 (as claimed): no two entries of the store have the same id.
C9_Deduplicated ==
  \A i, j \in DOMAIN suggestions :
    suggestions[i].id = suggestions[j].id => i = j

\* C10 (as claimed): the store holds no accepted or rejected suggestion.
C10_NoTerminalHeld ==
  \A i \in DOMAIN suggestions : suggestions[i].status \notin Terminal

\* The records of the steps of a call before it returns or throws.
StepKinds == {"acceptStart", "rejectStart", "load", "stepA", "stepB"}

\* C11: acceptSuggestion is not optimistic.  No step of an accept before
\* storeFeedback is over changes the store; when storeFeedback succeeds the
\* id is removed and the other entries stay as they were, in order; when it
\* throws the store is left as it was and the call ends with the error.
C11_AcceptNotOptimistic ==
  /\ (last.call.op = "accept" /\ last.kind \in StepKinds)
       => suggestions = last.before
  /\ last.kind = "acceptDone"
       => /\ ~HasId(suggestions, last.id)
          /\ suggestions = OthersOf(last.before, last.id)
          /\ last.call.pc = "ok"
  /\ last.kind = "acceptError"
       => /\ suggestions = last.before
          /\ last.call.pc \in {"errIdentity", "errSuggestion", "errTicket",
                               "errA", "errB"}

\* C11 witness: an accept has just succeeded for a suggestion the store held
\* until then.
C11_Witness ==
  /\ last.kind = "acceptDone"
  /\ HasId(last.before, last.id)
  /\ last.call.spanB = "success"

\* C12 (as claimed): when a reject returns without an error the store does
\* not hold the id.
C12_AbsentAtReturn ==
  last.kind = "rejectDone" => ~HasId(suggestions, last.id)

\* C12: rejectSuggestion is optimistic.  The id is out of the store before
\* storeFeedback has sent anything, the other entries stay as they were, and
\* no later step of a reject that succeeds changes the store: the removal is
\* not undone by the call.
C12_RejectOptimistic ==
  /\ last.kind = "rejectStart"
       => /\ ~HasId(suggestions, last.id)
          /\ suggestions = OthersOf(last.before, last.id)
          /\ last.call.pc \in {"identityWait", "loadSuggestion"}
  /\ (last.call.op = "reject" /\ last.kind \in {"load", "stepA", "stepB", "rejectDone"})
       => suggestions = last.before

\* C12 witness: a reject has just removed an entry the store held, and
\* nothing has been sent yet.
C12_Witness ==
  /\ last.kind = "rejectStart"
  /\ HasId(last.before, last.id)
  /\ last.call.pc = "loadSuggestion"

\* C13: the recorded feedback events are append-only.  No step removes or
\* changes an event that is recorded, and every recorded event has
\* updated_at equal to created_at.
C13_EventsAppendOnly ==
  [][/\ events \subseteq events'
     /\ \A e \in events' : e.updated_at = e.created_at]_vars

\* C13 witness: a submission has recorded its event and returned, and the
\* event is as it was inserted.
C13_Witness ==
  /\ last.kind \in {"acceptDone", "rejectDone"}
  /\ FeedbackEvent(last.call) \in events

\* C14: when the suggestion or the ticket cannot be loaded the call ends
\* with the error that names the one that is missing, and it has neither
\* updated the status nor inserted an event: no span of either step was
\* opened, the table is as it was and no event of the call is recorded.  A
\* call gets past the load of the suggestion only if the row is there.
C14_NotFoundAborts ==
  /\ (last.kind \in ErrorKinds /\ last.st \in {"suggestion", "ticket"})
       => /\ last.call.pc =
               (IF last.st = "suggestion" THEN "errSuggestion" ELSE "errTicket")
          /\ last.call.spanA = "none"
          /\ last.call.spanB = "none"
          /\ last.call.wrote = "none"
          /\ remote = last.table
          /\ \A e \in events : e.n # last.call.n
  /\ (last.kind = "load" /\ last.call.pc = "loadTicket")
       => last.table[last.id].state = "live"

\* C14 witness: a submission for a suggestion that is in the table has just
\* failed because the ticket could not be loaded.
C14_Witness ==
  /\ last.kind \in ErrorKinds
  /\ last.st = "ticket"
  /\ remote[last.id].state = "live"
  /\ remote[last.id].status = "pending"

\* C15: the end-to-end scenario.  When a fetch has returned [s1, s2], both
\* pending, the store holds these two; when the update event (s1, accepted)
\* is handled next the store is exactly [s2], the entry as it was; when an
\* accept of s2 succeeds after that the store is empty.  Step by step: a
\* fetch that succeeds leaves the rows it returned, the update event takes
\* [s1, s2] to [s2], the accept takes [s2] to the empty store.
C15_EndToEnd ==
  /\ scenario = 1 => S1S2Pending(suggestions)
  /\ scenario = 2
       => /\ Len(suggestions) = 1
          /\ suggestions[1].id = 2 /\ suggestions[1].status = "pending"
  /\ scenario = 3 => suggestions = <<>>
  /\ last.kind = "fetch" => suggestions = last.data
  /\ (last.kind = "UPDATE" /\ last.id = 1 /\ last.st = "accepted"
        /\ S1S2Pending(last.before))
       => suggestions = <<last.before[2]>>
  /\ (last.kind = "acceptDone" /\ last.id = 2
        /\ Len(last.before) = 1 /\ last.before[1].id = 2)
       => suggestions = <<>>

\* C15 witness: the end of the scenario.  The fetch returned [s1, s2], the
\* update event for s1 was handled, and the accept of s2 has just succeeded.
C15_Witness ==
  /\ scenario = 3
  /\ last.kind = "acceptDone"
  /\ last.id = 2
  /\ remote[1].status = "accepted"
  /\ remote[2].status = "accepted"

\* The strings one insertion, deletion or substitution away from s, over the
\* characters in `chars` and no longer than `len`.
OneEdit(s, chars, len) ==
  {SubSeq(s, 1, i - 1) \o SubSeq(s, i + 1, Len(s)) : i \in 1..Len(s)}
    \cup {[s EXCEPT ![i] = ch] : i \in 1..Len(s), ch \in chars}
    \cup (IF Len(s) < len
            THEN {SubSeq(s, 1, i) \o <<ch>> \o SubSeq(s, i + 1, Len(s)) :
                    i \in 0..Len(s), ch \in chars}
            ELSE {})

\* The strings at most k edits away from s.
RECURSIVE Within(_, _, _, _)
Within(s, k, chars, len) ==
  IF k = 0 THEN {s}
  ELSE LET w == Within(s, k - 1, chars, len)
       IN  w \cup UNION {OneEdit(t, chars, len) : t \in w}

\* The Levenshtein distance by its definition: the least number of single
\* edits that lead from a to b.  A shortest way needs no character that is
\* in neither string and no string longer than the longer of the two.
Levenshtein(a, b) ==
  LET chars == {a[i] : i \in 1..Len(a)} \cup {b[j] : j \in 1..Len(b)}
      len == IF Len(a) >= Len(b) THEN Len(a) ELSE Len(b)
  IN  IF a = b THEN 0
      ELSE CHOOSE k \in 1..len :
             /\ b \notin Within(a, k - 1, chars, len)
             /\ \E t \in Within(a, k - 1, chars, len) : b \in OneEdit(t, chars, len)

\* C16: what calculateEditDistance returns is the Levenshtein distance of
\* its arguments, for every pair of strings over the alphabet up to the
\* length bound and for kitten and sitting; in particular it is the length
\* of the other string when one is empty, 0 for equal strings, and 3 for
\* kitten and sitting.
C16_EditDistanceIsLevenshtein ==
  edit.pc = "returned"
    => /\ edit.result = Levenshtein(edit.str1, edit.str2)
       /\ edit.str1 = <<>> => edit.result = Len(edit.str2)
       /\ edit.str2 = <<>> => edit.result = Len(edit.str1)
       /\ edit.str1 = edit.str2 => edit.result = 0
       /\ (edit.str1 = Kitten /\ edit.str2 = Sitting) => edit.result = 3

\* C16 witness: calculateEditDistance("kitten", "sitting") has returned 3.
C16_Witness ==
  /\ edit.pc = "returned"
  /\ edit.str1 = Kitten
  /\ edit.str2 = Sitting
  /\ edit.result = 3

\* C17: after a delete event the store does not hold the id and every other
\* entry is there as before, in the same order; if the store did not hold
\* the id it is as it was.
C17_DeleteFrame ==
  last.kind = "DELETE"
    => /\ ~HasId(suggestions, last.id)
       /\ suggestions = OthersOf(last.before, last.id)
       /\ ~HasId(last.before, last.id) => suggestions = last.before

\* C17 witness: a delete event removed an entry of the store and kept
\* another one.
C17_Witness ==
  /\ last.kind = "DELETE"
  /\ HasId(last.before, last.id)
  /\ suggestions # <<>>

\* C18: at most one channel is subscribed at any time.  While the hook is
\* mounted it is the one channelRef holds, also right after the effect has
\* run again; before the first run and after the unmount none is subscribed
\* and channelRef is null; no event of a channel that was torn down is
\* still to be handled.
C18_OneSubscription ==
  /\ Cardinality(subs) <= 1
  /\ phase = "mounted" => (channelRef # 0 /\ subs = {channelRef})
  /\ phase # "mounted" => (channelRef = 0 /\ subs = {})
  /\ \A i \in DOMAIN feed : feed[i].ch \in subs

\* C18 witness: the effect has just run again while events of the previous
\* subscription may have been on their way; one channel is subscribed.
C18_Witness ==
  /\ last.kind = "resubscribe"
  /\ Cardinality(subs) = 1
  /\ remote[1].state = "live"

\* C19: when the select of fetchSuggestions fails, the error state is set,
\* loading is over and the store is what it was before the answer.
C19_FetchFailureKeepsStore ==
  last.kind = "fetchError"
    => /\ suggestions = last.before
       /\ error = "err"
       /\ isLoading = FALSE

\* C19 witness: a fetch has just failed while the store held suggestions.
C19_Witness ==
  /\ last.kind = "fetchError"
  /\ suggestions # <<>>
  /\ error = "err"

\* C20 (as claimed): a submission that found no identity at its start fails
\* at the retry only if the identity is still missing then, and it has
\* sent nothing: no step was taken, the table is as it was, no event of the
\* call is recorded.
C20_IdentityRetry ==
  (last.kind \in ErrorKinds /\ last.st = "identity")
    => /\ ~userId
       /\ last.call.pc = "errIdentity"
       /\ last.call.spanA = "none"
       /\ last.call.wrote = "none"
       /\ remote = last.table
       /\ \A e \in events : e.n # last.call.n

\* C21: inside one submission the status update, the insert of the event
\* and the flush of the trace follow one another.  While the update is
\* awaited nothing of the call is written; the insert is awaited only after
\* the update has succeeded, and no event of the call is recorded yet; the
\* flush is awaited only after both have succeeded; a submission returns
\* without an error only with the trace flushed.
C21_StepsInOrder ==
  /\ \A c \in CallIds :
       /\ calls[c].pc = "stepA"
            => /\ calls[c].spanA = "none" /\ calls[c].wrote = "none"
               /\ calls[c].spanB = "none"
               /\ \A e \in events : e.n # calls[c].n
       /\ calls[c].pc = "stepB"
            => /\ calls[c].spanA = "success" /\ calls[c].wrote \in Terminal
               /\ calls[c].spanB = "none"
               /\ \A e \in events : e.n # calls[c].n
       /\ calls[c].pc = "flush"
            => /\ calls[c].spanA = "success" /\ calls[c].spanB = "success"
               /\ \E e \in events : e.n = calls[c].n
       /\ ~calls[c].flushed
  /\ last.kind \in {"acceptDone", "rejectDone"}
       => /\ last.call.flushed
          /\ last.call.pc = "ok"
          /\ last.call.spanA = "success" /\ last.call.spanB = "success"
          /\ \E e \in events : e.n = last.call.n

\* C21 witness: a rejection has gone through the three steps and returned.
C21_Witness ==
  /\ last.kind = "rejectDone"
  /\ last.call.flushed
  /\ remote[last.id].status = "rejected"
  /\ \E e \in events : e.n = last.call.n /\ e.feedback_type = "rejection"

\* C22: the status written by step A is accepted for an approval and
\* rejected for every other feedback type.  After a successful step A on a
\* row that is there, the row has that status and the time of the call as
\* its update time, its other fields and the other rows are as they were;
\* the event written by step B has the feedback type of the call.
C22_StatusMapping ==
  /\ \A t \in FeedbackTypes :
       NewStatus(t) = (IF t = "approval" THEN "accepted" ELSE "rejected")
  /\ (last.kind = "stepA" /\ last.table[last.id].state = "live")
       => /\ remote[last.id].status =
               (IF FeedbackType(last.call.op) = "approval"
                  THEN "accepted" ELSE "rejected")
          /\ remote[last.id].updated_at = Now(last.call)
          /\ remote = [last.table EXCEPT
                         ![last.id].status = remote[last.id].status,
                         ![last.id].updated_at = Now(last.call)]
  /\ last.kind = "stepB"
       => \E e \in events :
            /\ e.n = last.call.n
            /\ e.suggestion_id = last.id
            /\ e.feedback_type = FeedbackType(last.call.op)
            /\ (e.feedback_type = "approval") <=> (last.call.wrote = "accepted")

\* C22 witness: step A of a rejection has just set a row that was pending
\* to rejected, at a time later than the row's last change.
C22_Witness ==
  /\ last.kind = "stepA"
  /\ last.call.op = "reject"
  /\ last.table[last.id].state = "live"
  /\ last.table[last.id].status = "pending"
  /\ last.table[last.id].updated_at < Now(last.call)
  /\ remote[last.id].status = "rejected"

\* C23 (as claimed): the entries of the store are listed in ascending order
\* of creation time.  The ids are numbered in the order of creation, so an
\* entry never comes after one with a greater id.
C23_StoreOrdered ==
  \A i, j \in DOMAIN suggestions :
    i < j => suggestions[i].id <= suggestions[j].id

\* C24 (as claimed): the time_to_feedback of the event a submission records
\* is the time from the creation of the suggestion to the time of the
\* submission.
C24_TimeToFeedback ==
  (last.kind = "stepB" /\ last.table[last.id].state = "live")
    => \A e \in events :
         e.n = last.call.n
           => e.time_to_feedback =
                Now(last.call) - last.table[last.id].created_at

\* No accept or reject is under way, every change event sent to the
\* subscribed handler has been handled, and no fetch is under way.
Quiescent ==
  /\ phase = "mounted"
  /\ \A c \in CallIds : calls[c].pc = "idle"
  /\ \A f \in FetchIds : fetches[f].pc = "idle"
  /\ feed = <<>>

\* C25 (as claimed): at quiescence every suggestion the store holds is in
\* the table and pending there.
C25_MirrorConsistent ==
  Quiescent
    => \A i \in DOMAIN suggestions :
         /\ remote[suggestions[i].id].state = "live"
         /\ remote[suggestions[i].id].status = "pending"

\* C26: an update event with a status that is not terminal, for an id the
\* store holds, leaves the store as long as it was; the entry with the id
\* has the record of the event in the place it had, with the presentation
\* status it had; every other entry is as it was.
C26_UpdateMergesInPlace ==
  (last.kind = "UPDATE" /\ last.st \notin Terminal /\ HasId(last.before, last.id))
    => /\ Len(suggestions) = Len(last.before)
       /\ \A i \in DOMAIN last.before :
            suggestions[i] =
              (IF last.before[i].id = last.id
                 THEN [id |-> last.id, status |-> last.st, ver |-> last.ver,
                       ui |-> last.before[i].ui]
                 ELSE last.before[i])

\* C26 witness: an update event changed the content of the first of two
\* entries.
C26_Witness ==
  /\ last.kind = "UPDATE"
  /\ last.st = "pending"
  /\ Len(last.before) = 2
  /\ last.before[1].id = last.id
  /\ last.before[1].ver < last.ver
  /\ suggestions[1].ver = last.ver

====
